---- MODULE Spec2Model ----
(***************************************************************************)
(* Model of src/server/firefox.ts: Firefox.launch / launchServer /         *)
(* launchPersistent, the private _launchServer they share, _defaultArgs,   *)
(* populateProfile, and the two callbacks (attemptToGracefullyClose,       *)
(* onkill) that _launchServer hands to launchProcess.                      *)
(*                                                                         *)
(* JavaScript runs one task at a time: an async function runs without      *)
(* interruption from one await to the next.  Every action below is one     *)
(* such run-to-completion segment, or one event delivered by the event     *)
(* loop (an I/O completion, a process event, a timer, a signal).           *)
(*                                                                         *)
(* launchProcess, waitForLine, BrowserServer and WebSocketTransport are    *)
(* imported from other files; their behaviour is taken from spec.md.       *)
(***************************************************************************)
EXTENDS Integers, Sequences, FiniteSets, TLC

\* ---------------------------------------------------------------- bounds
\* Most lines the child writes to its standard output.
MaxLines == 2
\* Most close() calls the caller makes on the returned BrowserServer.
MaxCloses == 2
\* Longest passthrough argument list tried when the argument assembly is
\* checked on its own (SpecArgs).
MaxArgs == 2

\* ------------------------------------------------------------- constants
Null == "null"

\* ---------------------------------------------------------------- strings
\* The characters of the strings whose prefixes the code tests.
Chars(s) ==
  CASE s = "-foo"         -> <<"-", "f", "o", "o">>
    [] s = "-profile"     -> <<"-", "p", "r", "o", "f", "i", "l", "e">>
    [] s = "--profile=/p" -> <<"-", "-", "p", "r", "o", "f", "i", "l", "e", "=", "/", "p">>
    [] s = "-juggler"     -> <<"-", "j", "u", "g", "g", "l", "e", "r">>
    [] s = "-jugglerx"    -> <<"-", "j", "u", "g", "g", "l", "e", "r", "x">>
    [] s = "--profile"    -> <<"-", "-", "p", "r", "o", "f", "i", "l", "e">>
    [] s = "-"            -> <<"-">>
    [] s = "http://x"     -> <<"h", "t", "t", "p", ":", "/", "/", "x">>
    [] s = ""             -> <<>>
    [] s = "about:blank"  -> <<"a", "b", "o", "u", "t", ":", "b", "l", "a", "n", "k">>

\* String.prototype.startsWith
StartsWith(s, prefix) ==
  LET cs == Chars(s)
      cp == Chars(prefix)
  IN Len(cp) <= Len(cs) /\ SubSeq(cs, 1, Len(cp)) = cp

Range(seq) == {seq[i] : i \in DOMAIN seq}

\* Array.prototype.filter with the predicate of line 98:
\* arg => !ignoreDefaultArgs.includes(arg)
RECURSIVE FilterNotIncluded(_, _)
FilterNotIncluded(seq, denied) ==
  IF seq = <<>> THEN <<>>
  ELSE (IF Head(seq) \in Range(denied) THEN <<>> ELSE <<Head(seq)>>)
         \o FilterNotIncluded(Tail(seq), denied)

\* An optional value (a parameter or option that may be undefined) is a
\* sequence of length at most one.
None == <<>>
Some(x) == <<x>>
Optional(S) == {None} \cup {Some(x) : x \in S}

\* ------------------------------------------------------------ input sets
\* The passthrough argument lists the caller may give in options.args.
PassArgLists ==
  {<<>>, <<"-foo">>, <<"http://x">>,
   <<"-profile">>, <<"--profile=/p">>, <<"-foo", "-juggler">>}

\* The temporary directory fs.mkdtemp creates (line 90).
TmpDir == "/tmp/playwright_dev_firefox_profile-XXXXXX"
\* A profile directory the caller of launchPersistent owns.
CallerDir == "/data"

Ports == {9222}

\* String(port), line 186.
PortString(port) ==
  CASE port = 0 -> "0"
    [] port = 9222 -> "9222"
    [] port = 9223 -> "9223"

\* ignoreDefaultArgs: false, true, or an array of strings.
IgnoreDefaultArgsValues ==
  {[kind |-> "false", list |-> <<>>],
   [kind |-> "true", list |-> <<>>],
   [kind |-> "array", list |-> <<"-headless", "-foo">>]}

\* LaunchOptions as destructured at lines 74-84 and 166-170.  handleSIGINT,
\* handleSIGTERM and handleSIGHUP keep their default, true; dumpio, env and
\* timeout do not change the control flow.
LaunchOptions ==
  [ignoreDefaultArgs : IgnoreDefaultArgsValues,
   args : PassArgLists,
   devtools : BOOLEAN,
   headless : Optional({FALSE}),
   executablePath : Optional({"/opt/ff/firefox"})]

\* --------------------------------------------------------- _defaultArgs
\* Lines 171-177: the error _defaultArgs throws, or None.
DefaultArgsError(options) ==
  IF options.devtools
    THEN Some("Option \"devtools\" is not supported by Firefox")
  ELSE IF \E i \in DOMAIN options.args :
            \/ StartsWith(options.args[i], "-profile")
            \/ StartsWith(options.args[i], "--profile")
    THEN Some("Pass userDataDir parameter instead of specifying -profile argument")
  ELSE IF \E i \in DOMAIN options.args : StartsWith(options.args[i], "-juggler")
    THEN Some("Use the port parameter instead of -juggler argument")
  ELSE None

\* HeadlessOf defaulting to devtools instead of !devtools.
HeadlessOfDevtools(options) ==
  IF options.headless = None THEN options.devtools ELSE options.headless[1]

\* Lines 166-170: headless = !devtools unless given.
HeadlessOf(options) ==
  IF options.headless = None THEN ~options.devtools ELSE options.headless[1]

\* DefaultArgs testing args.some(...) instead of args.every(...) at line 189.
DefaultArgsBlankIfSomeFlag(options, userDataDir, port) ==
  <<"-no-remote">>
    \o (IF HeadlessOf(options) THEN <<"-headless">> ELSE <<"-wait-for-browser">>)
    \o <<"-profile", userDataDir>>
    \o <<"-juggler", PortString(port)>>
    \o options.args
    \o (IF \E i \in DOMAIN options.args : StartsWith(options.args[i], "-")
          THEN <<"about:blank">> ELSE <<>>)

\* Lines 179-191: the list _defaultArgs returns when it does not throw.
DefaultArgs(options, userDataDir, port) ==
  <<"-no-remote">>
    \o (IF HeadlessOf(options) THEN <<"-headless">> ELSE <<"-wait-for-browser">>)
    \o <<"-profile", userDataDir>>
    \o <<"-juggler", PortString(port)>>
    \o options.args
    \o (IF \A i \in DOMAIN options.args : StartsWith(options.args[i], "-")
          THEN <<"about:blank">> ELSE <<>>)

\* ArgumentsError validating only when ignoreDefaultArgs is false, as if
\* the denylist branch of line 98 filtered args without _defaultArgs.
ArgumentsErrorOnlyWhenFalse(options) ==
  IF options.ignoreDefaultArgs.kind = "false" THEN DefaultArgsError(options) ELSE None

\* Lines 95-100: whether argument assembly throws, and with what.
ArgumentsError(options) ==
  IF options.ignoreDefaultArgs.kind = "true" THEN None ELSE DefaultArgsError(options)

\* FirefoxArguments with the filter of line 98 inverted: it keeps the
\* denylisted arguments and drops the others.
FirefoxArgumentsKeepDenied(options, userDataDir, port) ==
  IF options.ignoreDefaultArgs.kind = "false"
    THEN DefaultArgs(options, userDataDir, port)
  ELSE IF options.ignoreDefaultArgs.kind = "array"
    THEN LET full == DefaultArgs(options, userDataDir, port)
         IN FilterNotIncluded(full, FilterNotIncluded(full, options.ignoreDefaultArgs.list))
  ELSE options.args

\* Lines 86, 95-100: firefoxArguments when assembly does not throw.
FirefoxArguments(options, userDataDir, port) ==
  IF options.ignoreDefaultArgs.kind = "false"
    THEN DefaultArgs(options, userDataDir, port)
  ELSE IF options.ignoreDefaultArgs.kind = "array"
    THEN FilterNotIncluded(DefaultArgs(options, userDataDir, port),
                           options.ignoreDefaultArgs.list)
  ELSE options.args

\* port || 0, lines 96 and 98.
PortOrZero(port) == IF port = None \/ port = Some(0) THEN 0 ELSE port[1]

\* ------------------------------------------------------ readiness lines
\* A line of the child's standard output is a sequence of tokens; the
\* readiness pattern of line 142 is /^Juggler listening on (ws:\/\/.*)$/.
ListenPrefix == "Juggler listening on "
WsScheme == "ws://"

StdoutLines ==
  {<<ListenPrefix, WsScheme, "127.0.0.1:9222/abc">>,
   <<ListenPrefix, WsScheme, "127.0.0.1:4444/def">>,
   <<"Listening on ", WsScheme, "127.0.0.1:9222/abc">>,
   <<ListenPrefix, "http://", "127.0.0.1:9222/abc">>}

\* line.match(regex) with the regex of line 142: None when the line does
\* not match, else the match array: the whole match, then the captured
\* group (JavaScript's match[0] and match[1], here at indexes 1 and 2).
ReadinessMatch(line) ==
  IF Len(line) >= 2 /\ line[1] = ListenPrefix /\ line[2] = WsScheme
    THEN Some(<<line, SubSeq(line, 2, Len(line))>>)
    ELSE None

\* CapturedEndpoint taking the whole match, match[0], for the group.
CapturedWholeMatch(match) == match[1]

\* Line 143: const browserWSEndpoint = match[1]
CapturedEndpoint(match) == match[2]

\* ------------------------------------------------------------------ state
VARIABLES
  pc,                  \* where _launchServer is
  opts,                \* the options, connectionType and port of the call
  dirs,                \* the directories on disk
  userDataDir,         \* the local userDataDir of _launchServer
  temporaryProfileDir, \* line 88
  userJS,              \* the write of user.js, line 460
  prefsJS,             \* the write of prefs.js, line 461
  populateRejected,    \* populateProfile's promise was rejected
  launchArgs,          \* what launchProcess was called with, lines 111-139
  procState,           \* the child process
  exitInfo,            \* its exit code and signal
  killSent,            \* a forced kill was sent to it
  linesRead,           \* how many lines waitForLine has read
  lastLine,            \* the last of them
  browserWSEndpoint,   \* line 143
  browserServer,       \* line 110, assigned at line 144
  result,              \* what _launchServer returned, or the error thrown
  gracefullyClosing,   \* the launcher's graceful close has begun
  closeCalls,          \* close() calls made on the BrowserServer
  closeThrew,          \* a close() call threw
  attempts,            \* the calls of attemptToGracefullyClose
  closeEvents          \* Events.BrowserServer.Close events emitted

vars ==
  <<pc, opts, dirs, userDataDir, temporaryProfileDir, userJS,
    prefsJS, populateRejected, launchArgs, procState, exitInfo, killSent,
    linesRead, lastLine, browserWSEndpoint, browserServer, result, gracefullyClosing,
    closeCalls, closeThrew, attempts, closeEvents>>

fsVars == <<dirs, userJS, prefsJS, populateRejected>>
procVars == <<launchArgs, procState, exitInfo, killSent, linesRead, lastLine>>
serverVars == <<browserWSEndpoint, browserServer, result>>
closeVars == <<gracefullyClosing, closeCalls, closeThrew, attempts, closeEvents>>

Init ==
  /\ pc = "idle"
  /\ opts = None
  /\ dirs = {CallerDir}
  /\ userDataDir = Null
  /\ temporaryProfileDir = Null
  /\ userJS = "none"
  /\ prefsJS = "none"
  /\ populateRejected = FALSE
  /\ launchArgs = None
  /\ procState = "none"
  /\ exitInfo = None
  /\ killSent = FALSE
  /\ linesRead = 0
  /\ lastLine = None
  /\ browserWSEndpoint = None
  /\ browserServer = None
  /\ result = None
  /\ gracefullyClosing = FALSE
  /\ closeCalls = 0
  /\ closeThrew = FALSE
  /\ attempts = <<>>
  /\ closeEvents = <<>>

\* ---------------------------------------------------------- _launchServer
\* The rejection of the promise _launchServer returns.
Rejected(error) == [kind |-> "rejected", error |-> error]

\* Line 93: populateProfile(userDataDir) is called and not awaited.  The
\* call runs populateProfile to its first await (line 460), which starts
\* the write of user.js, and returns a promise nothing waits for.
PopulateProfileCall == [userJS |-> "pending", prefsJS |-> "none"]

\* TempDirOption registering userDataDir itself: tempDir: userDataDir
TempDirOfUserDataDir(tmp, dir) == Some(dir)

\* Line 124: tempDir: temporaryProfileDir || undefined
TempDirOption(tmp, dir) == IF tmp = Null THEN None ELSE Some(tmp)

\* Lines 102-108 and 237-242: the executable, or None when the revision is
\* missing; local is revisionInfo.local, whether the revision is on disk.
FirefoxExecutable(options, local) ==
  IF options.executablePath # None THEN options.executablePath
  ELSE IF local THEN Some("/root/.local-firefox/firefox/firefox")
  ELSE None

\* Lines 93-139, entered with the profile directory known: populateProfile
\* is called, the arguments are assembled, the executable is resolved and
\* launchProcess is called.  Nothing is awaited in between.
ProvisionAndLaunch(o, dir, tmp, local) ==
  LET call == PopulateProfileCall
      argErr == ArgumentsError(o)
      exe == FirefoxExecutable(o, local)
  IN
  /\ userDataDir' = dir
  /\ temporaryProfileDir' = tmp
  /\ userJS' = call.userJS
  /\ prefsJS' = call.prefsJS
  /\ IF argErr # None
       THEN /\ pc' = "done"
            /\ result' = Rejected(argErr[1])
            /\ UNCHANGED launchArgs
     ELSE IF exe = None
       THEN /\ pc' = "done"
            /\ result' = Rejected("Firefox revision is not downloaded. Run \"npm install\"")
            /\ UNCHANGED launchArgs
     ELSE /\ pc' = "launching"
          /\ launchArgs' = Some([executablePath |-> exe[1],
                                 args |-> FirefoxArguments(o, dir, PortOrZero(o.port)),
                                 tempDir |-> TempDirOption(tmp, dir)])
          /\ UNCHANGED result

\* Lines 73-92: _launchServer(options, connectionType, userDataDir, port)
\* up to its first await.
LaunchServerBegin(options, connectionType, dir, port) ==
  LET o == [ignoreDefaultArgs |-> options.ignoreDefaultArgs,
            args |-> options.args,
            devtools |-> options.devtools,
            headless |-> options.headless,
            executablePath |-> options.executablePath,
            connectionType |-> connectionType,
            port |-> port]
  IN
  /\ opts' = Some(o)
  /\ IF dir = None \/ dir = Some("")
       THEN /\ pc' = "mkdtemp"
            /\ UNCHANGED <<userDataDir, temporaryProfileDir, userJS, prefsJS,
                           result, launchArgs>>
       ELSE \E local \in BOOLEAN :
              /\ (o.executablePath # None => local)
              /\ ProvisionAndLaunch(o, dir[1], Null, local)
  /\ UNCHANGED <<dirs, populateRejected, procState, exitInfo,
                 killSent, linesRead, lastLine, browserWSEndpoint, browserServer>>
  /\ UNCHANGED closeVars

\* Lines 51-52: launch(options)
Launch ==
  /\ pc = "idle"
  /\ \E options \in LaunchOptions :
    LaunchServerBegin(options, "local", None, None)

\* Lines 60-61: launchServer(options)
LaunchServer ==
  /\ pc = "idle"
  /\ \E options \in LaunchOptions, port \in Optional(Ports) :
    LaunchServerBegin(options, "server", None, port)

\* Lines 64-65: launchPersistent(userDataDir, options)
LaunchPersistent ==
  /\ pc = "idle"
  /\ \E options \in LaunchOptions, dir \in {Some(CallerDir), Some("")} :
    LaunchServerBegin(options, "persistent", dir, None)

\* Line 90 completes: mkdtemp created the directory, and lines 91-139 run.
MkdtempDone ==
  /\ pc = "mkdtemp"
  /\ dirs' = dirs \cup {TmpDir}
  /\ \E local \in BOOLEAN :
       /\ (opts[1].executablePath # None => local)
       /\ ProvisionAndLaunch(opts[1], TmpDir, TmpDir, local)
  /\ UNCHANGED <<opts, populateRejected, procState, exitInfo,
                 killSent, linesRead, lastLine, browserWSEndpoint, browserServer>>
  /\ UNCHANGED closeVars

\* Line 90 fails: the error of mkdtemp propagates.
MkdtempFailed ==
  /\ pc = "mkdtemp"
  /\ pc' = "done"
  /\ result' = Rejected("mkdtemp failed")
  /\ UNCHANGED <<opts, userDataDir, temporaryProfileDir,
                 browserWSEndpoint, browserServer>>
  /\ UNCHANGED <<fsVars, procVars, closeVars>>

\* ------------------------------------------------------- populateProfile
\* Line 460 completes: user.js is written and the write of prefs.js starts,
\* or the write fails and populateProfile rejects.
WriteUserJSDone ==
  /\ userJS = "pending"
  /\ \/ /\ userDataDir \in dirs
        /\ userJS' = "done"
        /\ prefsJS' = "pending"
        /\ UNCHANGED populateRejected
     \/ /\ userJS' = "failed"
        /\ populateRejected' = TRUE
        /\ UNCHANGED prefsJS
  /\ UNCHANGED <<pc, opts, dirs, userDataDir, temporaryProfileDir>>
  /\ UNCHANGED <<procVars, serverVars, closeVars>>

\* Line 461 completes.
WritePrefsJSDone ==
  /\ prefsJS = "pending"
  /\ \/ /\ userDataDir \in dirs
        /\ prefsJS' = "done"
        /\ UNCHANGED populateRejected
     \/ /\ prefsJS' = "failed"
        /\ populateRejected' = TRUE
  /\ UNCHANGED <<pc, opts, dirs, userDataDir, temporaryProfileDir, userJS>>
  /\ UNCHANGED <<procVars, serverVars, closeVars>>

\* --------------------------------------------- callbacks of lines 125-138
\* The id of the Browser.close message, imported at line 24.
kBrowserCloseMessageId == "kBrowserCloseMessageId"

\* AttemptToGracefullyClose without the guard of lines 126-127.
AttemptWithoutGuard(server, endpoint) ==
  IF endpoint = None
    THEN [rejected |-> TRUE, threw |-> TRUE, transports |-> <<>>, sent |-> <<>>]
  ELSE [rejected |-> FALSE, threw |-> FALSE,
        transports |-> <<endpoint[1]>>,
        sent |-> <<[method |-> "Browser.close", id |-> "kBrowserCloseMessageId",
                    endpoint |-> endpoint[1]]>>]

\* Lines 125-134: attemptToGracefullyClose.  It rejects when browserServer
\* is not assigned; otherwise it opens a WebSocketTransport to
\* browserWSEndpoint and sends Browser.close over it.  browserWSEndpoint is
\* a const declared at line 143: reading it before that line has run
\* throws inside the async callback ("threw"), which rejects its promise.
AttemptToGracefullyClose(server, endpoint) ==
  IF server = None
    THEN [rejected |-> TRUE, threw |-> FALSE, transports |-> <<>>, sent |-> <<>>]
  ELSE IF endpoint = None
    THEN [rejected |-> TRUE, threw |-> TRUE, transports |-> <<>>, sent |-> <<>>]
  ELSE [rejected |-> FALSE, threw |-> FALSE,
        transports |-> <<endpoint[1]>>,
        sent |-> <<[method |-> "Browser.close", id |-> kBrowserCloseMessageId,
                    endpoint |-> endpoint[1]]>>]

\* Onkill without the guard of line 136.
OnkillUnguarded(server, events, info) == Append(events, info)

\* Lines 135-138: onkill(exitCode, signal) emits Events.BrowserServer.Close
\* on browserServer when it is assigned.
Onkill(server, events, info) ==
  IF server # None THEN Append(events, info) ELSE events

\* ServerEndpoint exposing the endpoint in every launch mode.
ServerEndpointAlways(connectionType, endpoint) == Some(endpoint)

\* Line 144: the endpoint the BrowserServer exposes.
ServerEndpoint(connectionType, endpoint) ==
  IF connectionType = "server" THEN Some(endpoint) ELSE None

\* Line 145: the transport returned next to the BrowserServer.
ReturnedTransport(connectionType, endpoint) ==
  IF connectionType = "server" THEN None ELSE Some(endpoint)

\* Line 141: the error waitForLine is given for the timeout.
TimeoutError == "Timed out while trying to connect to Firefox!"

\* ------------------------------------------------ launchProcess (spec.md)
ExitInfos ==
  {[code |-> Some(0), signal |-> None],
   [code |-> None, signal |-> Some("SIGKILL")]}

\* spec.md 4.2: the process is spawned; spawning an unspawnable executable
\* fails with a launch error, and nothing of the launch is left behind.
\* Line 142 then calls waitForLine.
LaunchProcessSpawn ==
  /\ pc = "launching"
  /\ \/ /\ procState' = "running"
        /\ pc' = "waiting"
        /\ UNCHANGED <<result, dirs>>
     \/ /\ pc' = "done"
        /\ result' = Rejected("Failed to launch browser")
        /\ dirs' = dirs \ Range(launchArgs[1].tempDir)
        /\ UNCHANGED procState
  /\ UNCHANGED <<opts, userDataDir, temporaryProfileDir, userJS,
                 prefsJS, populateRejected, launchArgs, exitInfo, killSent,
                 linesRead, lastLine, browserWSEndpoint, browserServer>>
  /\ UNCHANGED closeVars

\* spec.md 4.5 kill(): a forced kill of the process, when it is alive.
KillProcess(state, sent) == sent \/ state = "running"

\* GracefulCloseActs without the check that the child is alive.
GracefulCloseActsAfterExit(state, closing) == ~closing

\* spec.md 4.2 item 4 and 4.5 close(): whether the graceful close acts: it
\* is a no-op once the child has exited, and it acts once.
GracefulCloseActs(state, closing) == state = "running" /\ ~closing

\* spec.md 2 and 4.2 item 4: what the launcher does when the graceful
\* attempt fails: it falls back to the forced kill, and the failure is not
\* passed on to the caller of close().
OnAttemptFailed == "kill"

\* spec.md 4.2 item 4, 4.5: gracefullyClose(), the function launchProcess
\* returns: calls attemptToGracefullyClose once and handles its failure,
\* be it a rejection or a failed send.
GracefullyClose ==
  IF GracefulCloseActs(procState, gracefullyClosing)
    THEN LET r == AttemptToGracefullyClose(browserServer, browserWSEndpoint) IN
         /\ gracefullyClosing' = TRUE
         /\ attempts' = Append(attempts, [server |-> browserServer,
                                          procState |-> procState,
                                          outcome |-> r])
         /\ \E sendFails \in BOOLEAN :
              /\ sendFails => r.sent # <<>>
              /\ LET failed == r.rejected \/ sendFails IN
                 /\ killSent' = IF failed /\ OnAttemptFailed = "kill"
                                  THEN KillProcess(procState, killSent)
                                  ELSE killSent
                 /\ closeThrew' = (closeThrew \/ (failed /\ OnAttemptFailed = "throw"))
    ELSE UNCHANGED <<gracefullyClosing, attempts, killSent, closeThrew>>

\* spec.md 4.2 item 3: the host receives SIGINT, SIGTERM or SIGHUP while
\* the handlers are installed: the graceful close is attempted.
Signal ==
  /\ procState = "running"
  /\ GracefullyClose
  /\ UNCHANGED <<pc, opts, userDataDir, temporaryProfileDir,
                 launchArgs, procState, exitInfo, linesRead, lastLine,
                 closeCalls, closeEvents>>
  /\ UNCHANGED <<fsVars, serverVars>>

\* spec.md 4.2 item 5, 4.5: the child exits, by itself, after the graceful
\* request or after a kill.  onkill is called with the exit code and
\* signal, a temporary profile directory is removed, and a pending
\* waitForLine fails (spec.md 4.3).
ProcessExit ==
  /\ procState = "running"
  /\ \E info \in ExitInfos :
       /\ info.signal # None => killSent
       /\ exitInfo' = Some(info)
       /\ closeEvents' = Onkill(browserServer, closeEvents, info)
  /\ procState' = "exited"
  /\ dirs' = dirs \ Range(launchArgs[1].tempDir)
  /\ IF pc = "waiting"
       THEN /\ pc' = "done"
            /\ result' = Rejected("Failed to launch browser: process exited")
       ELSE UNCHANGED <<pc, result>>
  /\ UNCHANGED <<opts, userDataDir, temporaryProfileDir, userJS,
                 prefsJS, populateRejected, launchArgs, killSent, linesRead, lastLine,
                 browserWSEndpoint, browserServer, gracefullyClosing,
                 closeCalls, closeThrew, attempts>>

\* ---------------------------------------------------- waitForLine, 141-145
\* A line of standard output is read.  When it matches, waitForLine
\* resolves and lines 143-145 run: the endpoint is captured, the
\* BrowserServer is created and _launchServer returns.
OnLine ==
  /\ pc = "waiting"
  /\ linesRead < MaxLines
  /\ \E line \in StdoutLines :
       LET match == ReadinessMatch(line) IN
       /\ linesRead' = linesRead + 1
       /\ lastLine' = Some(line)
       /\ IF match = None
            THEN UNCHANGED <<pc, serverVars>>
            ELSE LET endpoint == CapturedEndpoint(match[1]) IN
                 /\ browserWSEndpoint' = Some(endpoint)
                 /\ browserServer' =
                      Some([endpoint |-> ServerEndpoint(opts[1].connectionType, endpoint)])
                 /\ result' =
                      [kind |-> "returned",
                       transport |-> ReturnedTransport(opts[1].connectionType, endpoint)]
                 /\ pc' = "done"
  /\ UNCHANGED <<opts, userDataDir, temporaryProfileDir,
                 launchArgs, procState, exitInfo, killSent>>
  /\ UNCHANGED <<fsVars, closeVars>>

\* OnTimeout as if line 142 passed no timeout on to waitForLine: no
\* deadline is armed and the step never happens.
OnTimeoutNotArmed ==
  /\ FALSE
  /\ UNCHANGED vars

\* The deadline of waitForLine elapses: it rejects with the timeout error
\* and _launchServer, which catches nothing at lines 141-145, rejects too.
OnTimeout ==
  /\ pc = "waiting"
  /\ pc' = "done"
  /\ result' = Rejected(TimeoutError)
  /\ UNCHANGED <<opts, userDataDir, temporaryProfileDir,
                 browserWSEndpoint, browserServer>>
  /\ UNCHANGED <<fsVars, procVars, closeVars>>

\* ------------------------------------------------ BrowserServer (spec.md)
\* browserServer.close(): the graceful close.
Close ==
  /\ result # None /\ result.kind = "returned"
  /\ closeCalls < MaxCloses
  /\ closeCalls' = closeCalls + 1
  /\ GracefullyClose
  /\ UNCHANGED <<pc, opts, userDataDir, temporaryProfileDir,
                 launchArgs, procState, exitInfo, linesRead, lastLine,
                 closeEvents>>
  /\ UNCHANGED <<fsVars, serverVars>>

\* browserServer.kill(): the forced kill.
Kill ==
  /\ result # None /\ result.kind = "returned"
  /\ procState = "running" /\ ~killSent
  /\ killSent' = KillProcess(procState, killSent)
  /\ UNCHANGED <<pc, opts, userDataDir, temporaryProfileDir,
                 launchArgs, procState, exitInfo, linesRead, lastLine,
                 gracefullyClosing, closeCalls, closeThrew, attempts, closeEvents>>
  /\ UNCHANGED <<fsVars, serverVars>>

\* ---------------------------------------------------------- specification
Next ==
  \/ Launch
  \/ LaunchServer
  \/ LaunchPersistent
  \/ MkdtempDone
  \/ MkdtempFailed
  \/ WriteUserJSDone
  \/ WritePrefsJSDone
  \/ LaunchProcessSpawn
  \/ OnLine
  \/ OnTimeout
  \/ ProcessExit
  \/ Signal
  \/ Close
  \/ Kill

Spec == Init /\ [][Next]_vars

\* The event loop runs a timer that is due: the deadline of waitForLine
\* does not stay pending forever.
SpecLive == Spec /\ WF_vars(OnTimeout)

\* ============================================= argument assembly alone
\* The assembly of the arguments (lines 86-100, 165-192) and of the child's
\* environment (lines 79, 114-118) are pure functions of the call.  SpecArgs
\* draws a call from wider input sets than the launches above, keeps it in
\* opts, and applies the two functions, leaving what launchProcess would be
\* given in launchArgs.

\* Sequences over S of length at most n.
SeqsUpTo(S, n) == UNION {[1..k -> S] : k \in 0..n}

PassArgs == {"-foo", "http://x", "-profile", "-juggler", "about:blank"}

ArgPorts == {0, 9222}

ArgIgnoreDefaultArgsValues ==
  {[kind |-> "false", list |-> <<>>],
   [kind |-> "true", list |-> <<>>],
   [kind |-> "array", list |-> <<>>],
   [kind |-> "array", list |-> <<"-headless", "-foo">>],
   [kind |-> "array", list |-> <<"about:blank", "-profile">>]}

\* An environment maps each variable to its value, if it has one; a value
\* is a sequence of pieces, so that a template literal can join values.
EnvVars == {"LD_LIBRARY_PATH", "DISPLAY"}
HostEnvs ==
  {[v \in EnvVars |-> IF v = "DISPLAY" THEN Some(<<":0">>) ELSE None],
   [v \in EnvVars |-> IF v = "DISPLAY" THEN Some(<<":0">>) ELSE Some(<<"/host/lib">>)]}
CallerEnvs ==
  {[v \in EnvVars |-> IF v = "DISPLAY" THEN Some(<<":1">>) ELSE None],
   [v \in EnvVars |-> IF v = "DISPLAY" THEN None ELSE Some(<<"/caller/lib">>)]}

\* os.platform()
Platforms == {"linux", "darwin"}

\* Line 79: env = process.env unless given.
EnvOption(env, processEnv) == IF env = None THEN processEnv ELSE env[1]

\* path.dirname, line 117.
Dirname(path) ==
  CASE path = "/opt/ff/firefox" -> "/opt/ff"
    [] path = "/root/.local-firefox/firefox/firefox" -> "/root/.local-firefox/firefox"

\* ${value} in the template literal of line 117.
TemplateValue(value) == IF value = None THEN <<"undefined">> ELSE value[1]

\* Lines 114-118: the env option given to launchProcess.
ChildEnv(platform, env, processEnv, executable) ==
  IF platform = "linux"
    THEN [env EXCEPT !["LD_LIBRARY_PATH"] =
            Some(<<Dirname(executable), ":">>
                   \o TemplateValue(processEnv["LD_LIBRARY_PATH"]))]
    ELSE env

\* The calls SpecArgs draws from: the options, the parameters of
\* _launchServer, and what the host provides.
ArgCalls ==
  [ignoreDefaultArgs : ArgIgnoreDefaultArgsValues,
   args : SeqsUpTo(PassArgs, MaxArgs),
   devtools : BOOLEAN,
   headless : Optional(BOOLEAN),
   executablePath : Optional({"/opt/ff/firefox"}),
   connectionType : {"local"},
   port : {None},
   userDataDir : {TmpDir},
   env : Optional(CallerEnvs),
   processEnv : HostEnvs,
   platform : Platforms]
  \cup
  [ignoreDefaultArgs : ArgIgnoreDefaultArgsValues,
   args : SeqsUpTo(PassArgs, MaxArgs),
   devtools : BOOLEAN,
   headless : Optional(BOOLEAN),
   executablePath : {None},
   connectionType : {"server", "persistent"},
   port : Optional(ArgPorts),
   userDataDir : {TmpDir, CallerDir},
   env : {None},
   processEnv : {CHOOSE e \in HostEnvs : e["LD_LIBRARY_PATH"] # None},
   platform : {"linux"}]

\* Lines 51-52, 60-61, 64-65: only launchServer passes a port on.
PortPassed(call) == IF call.connectionType = "server" THEN call.port ELSE None

InitArgs ==
  /\ pc = "idle"
  /\ opts \in {Some(call) : call \in ArgCalls}
  /\ dirs = {CallerDir}
  /\ userDataDir = Null
  /\ temporaryProfileDir = Null
  /\ userJS = "none"
  /\ prefsJS = "none"
  /\ populateRejected = FALSE
  /\ launchArgs = None
  /\ procState = "none"
  /\ exitInfo = None
  /\ killSent = FALSE
  /\ linesRead = 0
  /\ lastLine = None
  /\ browserWSEndpoint = None
  /\ browserServer = None
  /\ result = None
  /\ gracefullyClosing = FALSE
  /\ closeCalls = 0
  /\ closeThrew = FALSE
  /\ attempts = <<>>
  /\ closeEvents = <<>>

\* Lines 86-100: firefoxArguments is assembled, or the assembly throws.
AssembleArguments ==
  /\ pc = "idle"
  /\ LET call == opts[1]
         argErr == ArgumentsError(call)
     IN IF argErr # None
          THEN /\ pc' = "done"
               /\ result' = Rejected(argErr[1])
               /\ UNCHANGED launchArgs
          ELSE /\ pc' = "assembled"
               /\ launchArgs' =
                    Some([args |-> FirefoxArguments(call, call.userDataDir,
                                                    PortOrZero(PortPassed(call))),
                          env |-> None])
               /\ UNCHANGED result
  /\ UNCHANGED <<opts, userDataDir, temporaryProfileDir, procState, exitInfo,
                 killSent, linesRead, lastLine, browserWSEndpoint, browserServer>>
  /\ UNCHANGED <<fsVars, closeVars>>

\* Lines 102-118: the executable is resolved (here: found) and the env of
\* the launchProcess call is built.
BuildEnvironment ==
  /\ pc = "assembled"
  /\ LET call == opts[1] IN
       launchArgs' =
         Some([launchArgs[1] EXCEPT
                 !.env = Some(ChildEnv(call.platform,
                                       EnvOption(call.env, call.processEnv),
                                       call.processEnv,
                                       FirefoxExecutable(call, TRUE)[1]))])
  /\ pc' = "done"
  /\ UNCHANGED <<opts, userDataDir, temporaryProfileDir, procState, exitInfo,
                 killSent, linesRead, lastLine, browserWSEndpoint, browserServer,
                 result>>
  /\ UNCHANGED <<fsVars, closeVars>>

NextArgs ==
  \/ AssembleArguments
  \/ BuildEnvironment

SpecArgs == InitArgs /\ [][NextArgs]_vars

\* ================================================================ claims
TypeOK ==
  /\ pc \in {"idle", "mkdtemp", "launching", "waiting", "done"}
  /\ procState \in {"none", "running", "exited"}
  /\ userJS \in {"none", "pending", "done", "failed"}
  /\ prefsJS \in {"none", "pending", "done", "failed"}
  /\ linesRead \in 0..MaxLines
  /\ closeCalls \in 0..MaxCloses

Returned == result # None /\ result.kind = "returned"
RejectedWith(error) == result # None /\ result.kind = "rejected" /\ result.error = error

\* C1, as claimed: whenever the browser process has been spawned, the
\* profile directory exists and both configuration files, user.js and
\* prefs.js, have been written; the process never runs while a write of
\* populateProfile is pending.
C1_ProfileWrittenBeforeSpawn ==
  procState = "running" => userJS = "done" /\ prefsJS = "done"

\* C2, as claimed: when the launch has been rejected with the timeout
\* error, a kill of the spawned process has been attempted (or the process
\* is already gone).
C2_TimeoutKillsProcess ==
  RejectedWith(TimeoutError) => killSent \/ procState = "exited"

\* C3, as claimed: once the spawned process has exited, exactly one
\* Events.BrowserServer.Close has been delivered.
C3_ExactlyOneCloseEventPerProcess ==
  procState = "exited" => Len(closeEvents) = 1

\* C3, amended: Events.BrowserServer.Close is never delivered before the
\* process exits and never more than once; once the process has exited it
\* has been delivered exactly once, carrying the exit code and signal, when
\* the BrowserServer had been created (readiness was reached), and not at
\* all when the process exited before readiness; close() never throws.
C3_CloseEventOncePerServer ==
  /\ Len(closeEvents) <= 1
  /\ procState # "exited" => closeEvents = <<>>
  /\ procState = "exited" =>
       closeEvents = (IF browserServer # None THEN <<exitInfo[1]>> ELSE <<>>)
  /\ ~closeThrew

\* C3 witness: close() was called twice, the process exited after a forced
\* kill and the one event was delivered.
C3_Witness ==
  /\ closeCalls = 2
  /\ procState = "exited"
  /\ killSent
  /\ Len(closeEvents) = 1

\* C4, as claimed: once a launch that auto-created a temporary profile
\* directory has failed and no process of it is running, the directory is
\* no longer on disk.
C4_TempDirRemovedOnFailure ==
  (/\ pc = "done"
   /\ result.kind = "rejected"
   /\ temporaryProfileDir # Null
   /\ procState # "running") => temporaryProfileDir \notin dirs

C6_EndpointOnlyAfterReadiness ==
  (browserServer # None \/ browserWSEndpoint # None \/ Returned) =>
    /\ lastLine # None
    /\ Len(lastLine[1]) >= 2
    /\ lastLine[1][1] = ListenPrefix
    /\ lastLine[1][2] = WsScheme
    /\ browserWSEndpoint = Some(Tail(lastLine[1]))
    /\ browserServer # None
    /\ browserServer[1].endpoint \in {None, Some(Tail(lastLine[1]))}
    /\ Returned
    /\ result.transport \in {None, Some(Tail(lastLine[1]))}

\* C6 witness: the launch returned after a non-matching line and then a
\* matching one.
C6_Witness ==
  /\ Returned
  /\ linesRead = 2
  /\ browserServer # None

\* Whether the options ask for devtools or pass a -profile, --profile or
\* -juggler flag.
UnsupportedOptions ==
  /\ opts # None
  /\ \/ opts[1].devtools
     \/ \E i \in DOMAIN opts[1].args :
          opts[1].args[i] \in {"-profile", "--profile=/p", "-juggler"}

\* C7, as claimed: for every value of ignoreDefaultArgs, a launch with
\* devtools or with a -profile / --profile / -juggler argument never calls
\* launchProcess and no process exists.
C7_UnsupportedOptionsNeverLaunch ==
  UnsupportedOptions => launchArgs = None /\ procState = "none"

\* C7, amended: when ignoreDefaultArgs is false or an array (it is not
\* true), a launch with devtools or with a -profile / --profile / -juggler
\* argument is rejected with the descriptive error, launchProcess is never
\* called and no process exists.
C7_UnsupportedOptionsRejectedUnlessBypassed ==
  (UnsupportedOptions /\ opts[1].ignoreDefaultArgs.kind # "true") =>
    /\ launchArgs = None
    /\ procState = "none"
    /\ pc \in {"idle", "mkdtemp", "done"}
    /\ pc = "done" =>
         /\ result.kind = "rejected"
         /\ userDataDir # Null =>
              result.error \in
                {"Option \"devtools\" is not supported by Firefox",
                 "Pass userDataDir parameter instead of specifying -profile argument",
                 "Use the port parameter instead of -juggler argument"}

\* C7 witness: a launch with devtools and a denylist was rejected after its
\* profile directory was known.
C7_Witness ==
  /\ UnsupportedOptions
  /\ opts[1].devtools
  /\ opts[1].ignoreDefaultArgs.kind = "array"
  /\ pc = "done"
  /\ userDataDir # Null
  /\ result.kind = "rejected"

C9_AttemptWithoutServerRejects ==
  \A i \in DOMAIN attempts :
    attempts[i].server = None =>
      /\ attempts[i].outcome.rejected
      /\ ~attempts[i].outcome.threw
      /\ attempts[i].outcome.transports = <<>>
      /\ attempts[i].outcome.sent = <<>>

\* C9 witness: a signal arrived while readiness was awaited: the attempt
\* was made without a BrowserServer, and the launcher killed the process.
C9_Witness ==
  /\ attempts # <<>>
  /\ attempts[1].server = None
  /\ browserWSEndpoint = None
  /\ killSent

\* C10, as claimed: when a write of populateProfile has failed,
\* launchProcess has not been called and no process was spawned.
C10_PopulateFailureAbortsLaunch ==
  populateRejected => launchArgs = None /\ procState = "none"

\* C13, as claimed: every graceful-close attempt that sends, sends exactly
\* one Browser.close message with id kBrowserCloseMessageId, and opens no
\* transport of its own: the message goes over the transport handed out at
\* readiness.
C13_CloseMessageOverReadinessTransport ==
  \A i \in DOMAIN attempts :
    attempts[i].outcome.sent # <<>> =>
      /\ Len(attempts[i].outcome.sent) = 1
      /\ attempts[i].outcome.sent[1].method = "Browser.close"
      /\ attempts[i].outcome.sent[1].id = kBrowserCloseMessageId
      /\ attempts[i].outcome.transports = <<>>

\* C14: a successful launch exposes the endpoint on the BrowserServer
\* exactly in 'server' mode and returns a transport exactly in the other
\* modes, so exactly one of the two.
C14_EndpointXorTransport ==
  Returned =>
    /\ browserServer # None
    /\ (browserServer[1].endpoint # None) <=> (opts[1].connectionType = "server")
    /\ (result.transport # None) <=> (opts[1].connectionType # "server")
    /\ (browserServer[1].endpoint # None) # (result.transport # None)

\* C14 witness: a launchPersistent returned a transport and no endpoint.
C14_Witness ==
  /\ Returned
  /\ opts[1].connectionType = "persistent"
  /\ result.transport # None
  /\ browserServer[1].endpoint = None

\* C15: a launch whose process was spawned does not wait for readiness
\* forever: it ends by returning the server handle, by the TimeoutError or
\* by the failure of a process that exited; once the process has exited the
\* launch is no longer waiting.
C15_LaunchCompletes ==
  /\ [](procState = "exited" => pc # "waiting")
  /\ []((pc = "done" /\ procState # "none") =>
          \/ Returned
          \/ RejectedWith(TimeoutError)
          \/ RejectedWith("Failed to launch browser: process exited"))
  /\ (pc = "waiting") ~> (pc = "done")

\* C15 witness: the process exited before any line was read and the launch
\* was rejected at once.
C15_Witness ==
  /\ procState = "exited"
  /\ linesRead = 0
  /\ RejectedWith("Failed to launch browser: process exited")

\* C18: browserServer is assigned only with browserWSEndpoint captured, no
\* call of the callbacks reads browserWSEndpoint before it is initialised,
\* and the endpoint never changes once captured.
C18_EndpointCapturedBeforeServer ==
  /\ [](browserServer # None => browserWSEndpoint # None)
  /\ [](\A i \in DOMAIN attempts : ~attempts[i].outcome.threw)
  /\ [][browserWSEndpoint # None => browserWSEndpoint' = browserWSEndpoint]_vars

\* C18 witness: after readiness the graceful attempt read the endpoint, and
\* onkill ran when the process exited.
C18_Witness ==
  /\ attempts # <<>>
  /\ attempts[1].server # None
  /\ attempts[1].outcome.transports = <<browserWSEndpoint[1]>>
  /\ procState = "exited"
  /\ closeEvents # <<>>

\* --------------------------------------------- claims checked in SpecArgs
\* The state after both functions were applied to the call in opts.
Assembled == pc = "done" /\ launchArgs # None

\* The passthrough arguments that start with '-'.
FlagArgs == {"-foo", "-profile", "-juggler"}
AllFlagPrefixed(args) == \A i \in DOMAIN args : args[i] \in FlagArgs

Count(seq, x) == Cardinality({i \in DOMAIN seq : seq[i] = x})

\* The directory of the executable the call resolves to.
ExpectedLibraryDir(call) ==
  IF call.executablePath # None THEN "/opt/ff" ELSE "/root/.local-firefox/firefox"

\* C11, as claimed: on linux, when the caller's env option sets
\* LD_LIBRARY_PATH, the child's LD_LIBRARY_PATH is the executable's
\* directory, ':', then the caller's value, and every other variable of
\* the caller's env is passed through unchanged.
C11_ChildEnvExtendsCallerEnv ==
  (/\ Assembled
   /\ opts[1].platform = "linux"
   /\ opts[1].env # None
   /\ opts[1].env[1]["LD_LIBRARY_PATH"] # None) =>
    LET caller == opts[1].env[1]
        child == launchArgs[1].env[1]
    IN /\ child["LD_LIBRARY_PATH"] =
            Some(<<ExpectedLibraryDir(opts[1]), ":">> \o caller["LD_LIBRARY_PATH"][1])
       /\ \A v \in EnvVars \ {"LD_LIBRARY_PATH"} : child[v] = caller[v]

\* C12, as claimed: whenever all passthrough arguments are flag-prefixed,
\* the argument list given to the process ends with 'about:blank'.
C12_BlankPageWheneverAllFlags ==
  (launchArgs # None /\ AllFlagPrefixed(opts[1].args)) =>
    /\ launchArgs[1].args # <<>>
    /\ launchArgs[1].args[Len(launchArgs[1].args)] = "about:blank"

\* C12, amended: when ignoreDefaultArgs is false or an array that does not
\* contain 'about:blank', and all passthrough arguments are flag-prefixed
\* (the empty list included), the argument list given to the process ends
\* with 'about:blank'; when some passthrough argument is not flag-prefixed,
\* no 'about:blank' is added to those the caller passed.
C12_BlankPageWhenAssembled ==
  launchArgs # None =>
    LET call == opts[1]
        out == launchArgs[1].args
    IN /\ (/\ call.ignoreDefaultArgs.kind # "true"
           /\ "about:blank" \notin Range(call.ignoreDefaultArgs.list)
           /\ AllFlagPrefixed(call.args)) =>
             /\ out # <<>>
             /\ out[Len(out)] = "about:blank"
             /\ Count(out, "about:blank") = 1
       /\ ~AllFlagPrefixed(call.args) =>
             Count(out, "about:blank") <= Count(call.args, "about:blank")

\* C12 witness: two flag arguments under a denylist, and the list ends
\* with the blank page.
C12_Witness ==
  /\ launchArgs # None
  /\ opts[1].ignoreDefaultArgs.kind = "array"
  /\ opts[1].args = <<"-foo", "-foo">>
  /\ launchArgs[1].args[Len(launchArgs[1].args)] = "about:blank"

\* The six leading arguments the claim C16 lists, for a call.
ExpectedLeadingArgs(call) ==
  <<"-no-remote",
    IF call.headless = Some(FALSE) THEN "-wait-for-browser" ELSE "-headless",
    "-profile",
    call.userDataDir,
    "-juggler",
    IF call.connectionType = "server" /\ call.port = Some(9222) THEN "9222" ELSE "0">>

\* The full default list: the leading arguments, the passthrough arguments
\* and the blank page when all of these are flags.
ExpectedDefaultList(call) ==
  ExpectedLeadingArgs(call) \o call.args
    \o (IF AllFlagPrefixed(call.args) THEN <<"about:blank">> ELSE <<>>)

\* Whether the call assembles the default list and removes nothing from it.
NothingDenylisted(call) ==
  /\ call.ignoreDefaultArgs.kind # "true"
  /\ Range(call.ignoreDefaultArgs.list) \cap Range(ExpectedDefaultList(call)) = {}

\* C16, as claimed: when the assembly is not bypassed and nothing is
\* denylisted, the list is exactly the six leading arguments followed by
\* the passthrough arguments.
C16_ExactlyLeadingThenPassthrough ==
  (launchArgs # None /\ NothingDenylisted(opts[1])) =>
    launchArgs[1].args = ExpectedLeadingArgs(opts[1]) \o opts[1].args

\* C16, amended: when the assembly is not bypassed and nothing is
\* denylisted, the list is '-no-remote', then '-headless' or
\* '-wait-for-browser', then '-profile' and the profile directory, then
\* '-juggler' and the port as a string (0 when no port was given, as always
\* for launch and launchPersistent), then the passthrough arguments in
\* their order, and then 'about:blank' when every passthrough argument
\* starts with '-'.
C16_LeadingPassthroughThenBlank ==
  (launchArgs # None /\ NothingDenylisted(opts[1])) =>
    launchArgs[1].args = ExpectedDefaultList(opts[1])

\* C16 witness: a visible launchServer on port 9222 with two passthrough
\* arguments, the second one a flag.
C16_Witness ==
  /\ launchArgs # None
  /\ opts[1].ignoreDefaultArgs.kind = "false"
  /\ opts[1].headless = Some(FALSE)
  /\ opts[1].port = Some(9222)
  /\ opts[1].connectionType = "server"
  /\ opts[1].args = <<"http://x", "-foo">>

\* The indexes of the default list whose argument is not denylisted.
KeptIndexes(call) ==
  {i \in DOMAIN ExpectedDefaultList(call) :
     ExpectedDefaultList(call)[i] \notin Range(call.ignoreDefaultArgs.list)}

\* C17: with ignoreDefaultArgs true the process is given exactly the
\* passthrough arguments; with an array, the default list without the
\* arguments equal to a denylisted string, the others in their order; with
\* false, the full default list.
C17_IgnoreDefaultArgsSelectsList ==
  launchArgs # None =>
    LET call == opts[1]
        out == launchArgs[1].args
        full == ExpectedDefaultList(call)
        kept == KeptIndexes(call)
    IN /\ call.ignoreDefaultArgs.kind = "true" => out = call.args
       /\ call.ignoreDefaultArgs.kind = "false" => out = full
       /\ call.ignoreDefaultArgs.kind = "array" =>
            /\ Len(out) = Cardinality(kept)
            /\ \A k \in DOMAIN out :
                 out[k] = full[CHOOSE i \in kept :
                                 Cardinality({j \in kept : j < i}) = k - 1]

\* C17 witness: a denylist removed the mode flag and a passthrough flag
\* and kept the rest.
C17_Witness ==
  /\ launchArgs # None
  /\ opts[1].ignoreDefaultArgs.list = <<"-headless", "-foo">>
  /\ opts[1].args = <<"-foo", "http://x">>
  /\ launchArgs[1].args =
       <<"-no-remote", "-profile", opts[1].userDataDir, "-juggler", "0", "http://x">>

====
